---- MODULE Spec2Model ----
(***************************************************************************)
(* Model of index.js: the express routes of the lesson-sharing backend     *)
(* over the three MongoDB collections users, lessons and reports.          *)
(*                                                                         *)
(* A request is handled as a chain of awaits: the verifyToken middleware,  *)
(* the isAdmin middleware where the route has it, and then one step per    *)
(* store round trip of the handler.  Between two awaits of one request any *)
(* step of another request may run, so each await is one action.           *)
(***************************************************************************)
EXTENDS Integers, Sequences, FiniteSets, Bags, TLC

\* Bounds of the model.
MaxRequests == 2        \* requests received in one behaviour, all of which may be in flight at once

\* The emails the identity provider can resolve a credential to.
Emails == {"a", "b", "c"}

\* The Authorization header of a request: no Bearer credential, a credential
\* the identity provider rejects, or a credential it resolves to an email.
Tokens == {"none", "invalid"} \cup Emails

VARIABLES
    users,      \* the users collection: sequence of account documents, in store order
    lessons,    \* the lessons collection: function from the _id of each stored lesson to its document
    nextId,     \* the next _id the store generates for an inserted lesson
    reports,    \* the reports collection: sequence of report documents
    reqs,       \* the requests being handled: a bag of request records
    last,       \* the last request answered, with its response
    nreq        \* number of requests received so far

vars == <<users, lessons, nextId, reports, reqs, last, nreq>>

------------------------------------------------------------------------------
\* Store primitives (the MongoDB driver calls the routes make).

\* collection.findOne({email}): the first matching document, as a sequence of
\* zero or one documents.
indexOfEmail(coll, email) ==
    LET hits == {i \in 1..Len(coll) : coll[i].email = email}
    IN  IF hits = {} THEN 0 ELSE CHOOSE i \in hits : \A j \in hits : i <= j

findOneUser(coll, email) ==
    IF indexOfEmail(coll, email) = 0 THEN <<>> ELSE <<coll[indexOfEmail(coll, email)]>>

\* lessons.findOne({_id}).
findOneLesson(coll, id) ==
    IF id \in DOMAIN coll THEN <<coll[id]>> ELSE <<>>

\* {$set: patch} on one document: the fields of the patch replace the document's.
applySet(doc, patch) ==
    [f \in DOMAIN doc \cup DOMAIN patch |-> IF f \in DOMAIN patch THEN patch[f] ELSE doc[f]]

\* lessons.updateOne({_id}, {$set: patch}) with a patch that recreates a missing
\* document (upsert): what the route's updateOne must not do.
updateOneLesson_upsert(coll, id, patch) ==
    IF id \in DOMAIN coll
    THEN [coll EXCEPT ![id] = applySet(coll[id], patch)]
    ELSE [i \in DOMAIN coll \cup {id} |->
            IF i = id
            THEN applySet([creatorEmail |-> "undefined", accessLevel |-> "undefined",
                           likes |-> <<>>, favorites |-> <<>>], patch)
            ELSE coll[i]]

\* lessons.updateOne({_id}, {$set: patch}): no upsert, so a filter that matches
\* nothing changes nothing.
updateOneLesson(coll, id, patch) ==
    IF id \in DOMAIN coll
    THEN [coll EXCEPT ![id] = applySet(coll[id], patch)]
    ELSE coll

\* lessons.deleteOne({_id}).
deleteOneLesson(coll, id) ==
    [i \in DOMAIN coll \ {id} |-> coll[i]]

\* matchedCount / deletedCount of a write filtered by _id.
matchCount(coll, id) == IF id \in DOMAIN coll THEN 1 ELSE 0

\* $push: appends whether or not the value is there.
push(arr, e) == Append(arr, e)

\* $addToSet on an array field: appends the value unless the array holds it.
addToSet(arr, e) ==
    IF \E i \in 1..Len(arr) : arr[i] = e THEN arr ELSE Append(arr, e)

\* users.updateOne({email}, {$set: {isPremium: true}}): the first matching
\* document only; nothing is inserted when none matches.
setPremium(coll, email) ==
    IF indexOfEmail(coll, email) = 0 THEN coll
    ELSE [coll EXCEPT ![indexOfEmail(coll, email)] = applySet(@, [isPremium |-> TRUE])]

------------------------------------------------------------------------------
\* Request payloads.

\* POST /users body: an email, and the privilege fields a caller may try to set.
RegisterBodies ==
    {[email |-> e, role |-> p[1], isPremium |-> p[2]] :
        e \in Emails, p \in {<<"user", FALSE>>, <<"admin", TRUE>>}}

\* POST /lessons body: the access level, alone or with forged server-owned fields.
LessonBodies ==
    {[accessLevel |-> x] : x \in {"public", "premium"}} \cup
    {[accessLevel |-> x, creatorEmail |-> "a", likes |-> <<"a">>, favorites |-> <<"a">>] :
        x \in {"public", "premium"}}

\* PUT /lessons/:id body: the fields to $set.
PatchBodies ==
    {[accessLevel |-> x] : x \in {"public", "premium"}} \cup
    {[creatorEmail |-> e] : e \in {"a", "c"}}

\* POST /payment-success and POST /report bodies: an email the caller names.
EmailBodies == {[email |-> e] : e \in {"a", "b"}}

NoBody == [none |-> TRUE]

------------------------------------------------------------------------------
\* Routes.

\* Routes behind verifyToken, and among them those behind isAdmin too.
AdminOps == {"adminUsers", "adminLessons", "adminReports", "adminStats"}

LessonIdOps == {"getLesson", "updateLesson", "deleteLesson", "like", "favorite"}

ProtectedOps ==
    AdminOps \cup LessonIdOps \cup
    {"getUser", "createLesson", "report", "checkout", "paymentSuccess"}

OpenOps == {"register", "listLessons"}

\* The first await of a route's handler, once its middlewares have passed.
HandlerEntry(op) ==
    CASE op \in {"register", "getUser"}                        -> "findOne"
      [] op \in {"listLessons", "adminUsers", "adminLessons",
                 "adminReports"}                               -> "find"
      [] op = "adminStats"                                     -> "countUsers"
      [] op \in {"getLesson", "updateLesson", "deleteLesson"}  -> "findLesson"
      [] op = "createLesson"                                   -> "findUser"
      [] op \in {"like", "favorite", "paymentSuccess"}         -> "updateOne"
      [] op = "report"                                         -> "insertOne"
      [] op = "checkout"                                       -> "stripe"

\* The request record before anything of the request is read.
Idle ==
    [op |-> "none", token |-> "none", id |-> 0, body |-> NoBody, pc |-> "idle",
     email |-> "undefined", lesson |-> <<>>, user |-> <<>>, ops |-> 0,
     status |-> "", out |-> ""]

\* A request as express hands it to the first function of its route.  The
\* header, the :id parameter and the body are parts of the request; each is
\* drawn by the step that first reads it, which no step can tell from drawing
\* it on receipt.
NewRequest(op) ==
    [Idle EXCEPT !.op = op,
                 !.pc = IF op \in ProtectedOps THEN "verifyToken" ELSE HandlerEntry(op)]

\* The request r after one more store round trip that ends it with a response.
Finish(r, status, out) ==
    [r EXCEPT !.ops = @ + 1, !.pc = "done", !.status = status, !.out = out]

\* The requests being handled.
InFlight == BagToSet(reqs)

\* The handler of request q sends its response r (or rejects): the request is over.
Done(q, r) ==
    /\ reqs' = reqs (-) SetToBag({q})
    /\ last' = r

\* The handler of request q goes on to its next await, as r.
Goto(q, r) ==
    /\ reqs' = (reqs (-) SetToBag({q})) (+) SetToBag({r})
    /\ last' = last

\* The :id values a request may name: every _id generated so far, and one the
\* store never generated.
Ids == 1..nextId

\* verifyToken lets the credential through although the provider did not
\* resolve it (a catch block that calls next()).
verifyTokenOK_lenient(token) == token # "none"

\* verifyToken: the header starts with "Bearer " and verifyIdToken resolves it.
verifyTokenOK(token) == token \in Emails

\* isAdmin: user?.role === "admin".
isAdminOK(user) == user # <<>> /\ user[1].role = "admin"

\* The premium gate without the account lookup result: only callers with no
\* account are turned away.
premiumDenied_anyAccount(lesson, user, email) ==
    user = <<>> /\ email # lesson.creatorEmail

\* GET /lessons/:id on a premium lesson: !user?.isPremium && email !== lesson.creatorEmail.
premiumDenied(lesson, user, email) ==
    ~(user # <<>> /\ user[1].isPremium) /\ email # lesson.creatorEmail

\* POST /lessons: data.accessLevel === "premium" && !user.isPremium; reading
\* isPremium of a null user throws a TypeError.
createThrows(body, user) == body.accessLevel = "premium" /\ user = <<>>

createDenied(body, user) ==
    body.accessLevel = "premium" /\ user # <<>> /\ ~user[1].isPremium

\* PUT and DELETE /lessons/:id: lesson.creatorEmail !== req.user.email &&
\* user.role !== "admin"; reading role of a null user throws a TypeError.
ownershipThrows(lesson, user, email) ==
    lesson.creatorEmail # email /\ user = <<>>

ownershipDenied(lesson, user, email) ==
    lesson.creatorEmail # email /\ user # <<>> /\ user[1].role # "admin"

\* The account POST /users stores, with the body's role kept.
newUserDoc_trusting(body) ==
    [email |-> body.email, role |-> body.role, isPremium |-> FALSE]

\* The account POST /users stores: the body with role and isPremium overwritten.
newUserDoc(body) ==
    [email |-> body.email, role |-> "user", isPremium |-> FALSE]

\* The lesson POST /lessons stores: the body with creatorEmail, likes and
\* favorites overwritten.
newLessonDoc(body, email) ==
    [accessLevel |-> body.accessLevel, creatorEmail |-> email,
     likes |-> <<>>, favorites |-> <<>>]

\* The report POST /report stores: the body with email overwritten.
newReportDoc(body, email) == [email |-> email]

\* The account POST /payment-success marks, taken from the body.
paymentTarget_body(r) == r.body.email

\* The account POST /payment-success marks: req.user.email.
paymentTarget(r) == r.email

\* The value $addToSet receives in the like and favorite routes: req.user.email.
likeValue(r) == r.email

------------------------------------------------------------------------------
\* The store when the model starts: the account of the administrator "a",
\* given its role out of band and premium since its payment, and the lesson
\* "b" posted without registering and then made premium.
Init ==
    /\ users = <<[email |-> "a", role |-> "admin", isPremium |-> TRUE]>>
    /\ lessons = (1 :> [accessLevel |-> "premium", creatorEmail |-> "b",
                        likes |-> <<>>, favorites |-> <<>>])
    /\ nextId = 2
    /\ reports = <<>>
    /\ reqs = EmptyBag
    /\ last = Idle
    /\ nreq = 0

\* express receives a request and starts its route.
Receive ==
    /\ nreq < MaxRequests
    /\ \E op \in ProtectedOps \cup OpenOps :
          reqs' = reqs (+) SetToBag({NewRequest(op)})
    /\ nreq' = nreq + 1
    /\ UNCHANGED <<users, lessons, nextId, reports, last>>

\* verifyToken middleware.
VerifyToken ==
    /\ \E q \in InFlight, token \in Tokens :
        /\ q.pc = "verifyToken"
        /\ LET r == [q EXCEPT !.token = token]
           IN  IF verifyTokenOK(token)
               THEN Goto(q, [r EXCEPT !.email = IF token \in Emails THEN token ELSE "undefined",
                                      !.pc = IF r.op \in AdminOps
                                             THEN "isAdmin" ELSE HandlerEntry(r.op)])
               ELSE Done(q, [r EXCEPT !.pc = "done", !.status = "401",
                                      !.out = IF token = "none"
                                              THEN "Unauthorized" ELSE "Invalid Token"])
    /\ UNCHANGED <<users, lessons, nextId, reports, nreq>>

\* isAdmin middleware.
IsAdmin ==
    /\ \E q \in InFlight :
        /\ q.pc = "isAdmin"
        /\ LET r == [q EXCEPT !.user = findOneUser(users, q.email)]
           IN  IF isAdminOK(r.user)
               THEN Goto(q, [r EXCEPT !.ops = @ + 1, !.pc = HandlerEntry(r.op)])
               ELSE Done(q, Finish(r, "403", "Forbidden: Admin only"))
    /\ UNCHANGED <<users, lessons, nextId, reports, nreq>>

\* POST /users: users.findOne({email: user.email}).
Register_findOne ==
    /\ \E q \in InFlight, body \in RegisterBodies :
        /\ q.op = "register" /\ q.pc = "findOne"
        /\ LET r == [q EXCEPT !.body = body, !.user = findOneUser(users, body.email)]
           IN  IF r.user # <<>>
               THEN Done(q, Finish(r, "200", "User already exists"))
               ELSE Goto(q, [r EXCEPT !.ops = @ + 1, !.pc = "insertOne"])
    /\ UNCHANGED <<users, lessons, nextId, reports, nreq>>

\* POST /users: users.insertOne(user).
Register_insertOne ==
    /\ \E q \in InFlight :
        /\ q.op = "register" /\ q.pc = "insertOne"
        /\ users' = Append(users, newUserDoc(q.body))
        /\ Done(q, Finish(q, "200", "User created"))
    /\ UNCHANGED <<lessons, nextId, reports, nreq>>

\* GET /users/:email: any authenticated caller, any email.
GetUser ==
    /\ \E q \in InFlight, e \in Emails :
        /\ q.op = "getUser" /\ q.pc = "findOne"
        /\ Done(q, Finish([q EXCEPT !.user = findOneUser(users, e)], "200", "user"))
    /\ UNCHANGED <<users, lessons, nextId, reports, nreq>>

\* GET /admin/users.
AdminUsers ==
    /\ \E q \in InFlight :
        /\ q.op = "adminUsers" /\ q.pc = "find"
        /\ Done(q, Finish(q, "200", "users"))
    /\ UNCHANGED <<users, lessons, nextId, reports, nreq>>

\* GET /admin/lessons.
AdminLessons ==
    /\ \E q \in InFlight :
        /\ q.op = "adminLessons" /\ q.pc = "find"
        /\ Done(q, Finish(q, "200", "lessons"))
    /\ UNCHANGED <<users, lessons, nextId, reports, nreq>>

\* GET /admin/reports.
AdminReports ==
    /\ \E q \in InFlight :
        /\ q.op = "adminReports" /\ q.pc = "find"
        /\ Done(q, Finish(q, "200", "reports"))
    /\ UNCHANGED <<users, lessons, nextId, reports, nreq>>

\* GET /admin/stats: the three countDocuments calls, one await each.
AdminStats_users ==
    /\ \E q \in InFlight :
        /\ q.op = "adminStats" /\ q.pc = "countUsers"
        /\ Goto(q, [q EXCEPT !.ops = @ + 1, !.pc = "countLessons"])
    /\ UNCHANGED <<users, lessons, nextId, reports, nreq>>

AdminStats_lessons ==
    /\ \E q \in InFlight :
        /\ q.op = "adminStats" /\ q.pc = "countLessons"
        /\ Goto(q, [q EXCEPT !.ops = @ + 1, !.pc = "countReports"])
    /\ UNCHANGED <<users, lessons, nextId, reports, nreq>>

AdminStats_reports ==
    /\ \E q \in InFlight :
        /\ q.op = "adminStats" /\ q.pc = "countReports"
        /\ Done(q, Finish(q, "200", "stats"))
    /\ UNCHANGED <<users, lessons, nextId, reports, nreq>>

\* GET /lessons: the public listing (its filters and its sort only read).
ListLessons ==
    /\ \E q \in InFlight :
        /\ q.op = "listLessons" /\ q.pc = "find"
        /\ Done(q, Finish(q, "200", "lessons"))
    /\ UNCHANGED <<users, lessons, nextId, reports, nreq>>

\* GET /lessons/:id: lessons.findOne, then the response unless the lesson is premium.
GetLesson_findLesson ==
    /\ \E q \in InFlight, id \in Ids :
        /\ q.op = "getLesson" /\ q.pc = "findLesson"
        /\ LET r == [q EXCEPT !.id = id, !.lesson = findOneLesson(lessons, id)]
           IN  IF r.lesson = <<>>
               THEN Done(q, Finish(r, "404", "Lesson not found"))
               ELSE IF r.lesson[1].accessLevel = "premium"
               THEN Goto(q, [r EXCEPT !.ops = @ + 1, !.pc = "findUser"])
               ELSE Done(q, Finish(r, "200", "lesson"))
    /\ UNCHANGED <<users, lessons, nextId, reports, nreq>>

\* GET /lessons/:id on a premium lesson: users.findOne({email}) and the gate.
GetLesson_findUser ==
    /\ \E q \in InFlight :
        /\ q.op = "getLesson" /\ q.pc = "findUser"
        /\ LET r == [q EXCEPT !.user = findOneUser(users, q.email)]
           IN  IF premiumDenied(r.lesson[1], r.user, r.email)
               THEN Done(q, Finish(r, "403", "Upgrade to Premium to view this lesson"))
               ELSE Done(q, Finish(r, "200", "lesson"))
    /\ UNCHANGED <<users, lessons, nextId, reports, nreq>>

\* POST /lessons: users.findOne({email}) and the premium-authoring gate.  The
\* TypeError of user.isPremium on a null user rejects the handler's promise:
\* no response is sent.
CreateLesson_findUser ==
    /\ \E q \in InFlight, body \in LessonBodies :
        /\ q.op = "createLesson" /\ q.pc = "findUser"
        /\ LET r == [q EXCEPT !.body = body, !.user = findOneUser(users, q.email)]
           IN  IF createThrows(body, r.user)
               THEN Done(q, Finish(r, "TypeError", ""))
               ELSE IF createDenied(body, r.user)
               THEN Done(q, Finish(r, "403", "Upgrade to Premium to create premium lesson"))
               ELSE Goto(q, [r EXCEPT !.ops = @ + 1, !.pc = "insertOne"])
    /\ UNCHANGED <<users, lessons, nextId, reports, nreq>>

\* POST /lessons: lessons.insertOne(data); the store generates the _id, which
\* the response carries.
CreateLesson_insertOne ==
    /\ \E q \in InFlight :
        /\ q.op = "createLesson" /\ q.pc = "insertOne"
        /\ lessons' = [i \in DOMAIN lessons \cup {nextId} |->
                         IF i = nextId THEN newLessonDoc(q.body, q.email)
                         ELSE lessons[i]]
        /\ Done(q, Finish([q EXCEPT !.id = nextId], "200", "inserted"))
    /\ nextId' = nextId + 1
    /\ UNCHANGED <<users, reports, nreq>>

\* PUT /lessons/:id: lessons.findOne({_id}).
UpdateLesson_findLesson ==
    /\ \E q \in InFlight, id \in Ids :
        /\ q.op = "updateLesson" /\ q.pc = "findLesson"
        /\ LET r == [q EXCEPT !.id = id, !.lesson = findOneLesson(lessons, id)]
           IN  IF r.lesson = <<>>
               THEN Done(q, Finish(r, "404", "Lesson not found"))
               ELSE Goto(q, [r EXCEPT !.ops = @ + 1, !.pc = "findUser"])
    /\ UNCHANGED <<users, lessons, nextId, reports, nreq>>

\* PUT /lessons/:id: users.findOne({email}) and the ownership check.  The
\* TypeError of user.role on a null user rejects the handler's promise: no
\* response is sent.
UpdateLesson_findUser ==
    /\ \E q \in InFlight :
        /\ q.op = "updateLesson" /\ q.pc = "findUser"
        /\ LET r == [q EXCEPT !.user = findOneUser(users, q.email)]
           IN  IF ownershipThrows(r.lesson[1], r.user, r.email)
               THEN Done(q, Finish(r, "TypeError", ""))
               ELSE IF ownershipDenied(r.lesson[1], r.user, r.email)
               THEN Done(q, Finish(r, "403", "Not authorized"))
               ELSE Goto(q, [r EXCEPT !.ops = @ + 1, !.pc = "updateOne"])
    /\ UNCHANGED <<users, lessons, nextId, reports, nreq>>

\* PUT /lessons/:id: lessons.updateOne({_id}, {$set: req.body}); the response
\* is the driver's result.
UpdateLesson_updateOne ==
    /\ \E q \in InFlight, body \in PatchBodies :
        /\ q.op = "updateLesson" /\ q.pc = "updateOne"
        /\ lessons' = updateOneLesson(lessons, q.id, body)
        /\ Done(q, Finish([q EXCEPT !.body = body], "200",
                          IF matchCount(lessons, q.id) = 1
                          THEN "matchedCount 1" ELSE "matchedCount 0"))
    /\ UNCHANGED <<users, nextId, reports, nreq>>

\* DELETE /lessons/:id: lessons.findOne({_id}).
DeleteLesson_findLesson ==
    /\ \E q \in InFlight, id \in Ids :
        /\ q.op = "deleteLesson" /\ q.pc = "findLesson"
        /\ LET r == [q EXCEPT !.id = id, !.lesson = findOneLesson(lessons, id)]
           IN  IF r.lesson = <<>>
               THEN Done(q, Finish(r, "404", "Lesson not found"))
               ELSE Goto(q, [r EXCEPT !.ops = @ + 1, !.pc = "findUser"])
    /\ UNCHANGED <<users, lessons, nextId, reports, nreq>>

\* DELETE /lessons/:id: users.findOne({email}) and the ownership check.
DeleteLesson_findUser ==
    /\ \E q \in InFlight :
        /\ q.op = "deleteLesson" /\ q.pc = "findUser"
        /\ LET r == [q EXCEPT !.user = findOneUser(users, q.email)]
           IN  IF ownershipThrows(r.lesson[1], r.user, r.email)
               THEN Done(q, Finish(r, "TypeError", ""))
               ELSE IF ownershipDenied(r.lesson[1], r.user, r.email)
               THEN Done(q, Finish(r, "403", "Not authorized"))
               ELSE Goto(q, [r EXCEPT !.ops = @ + 1, !.pc = "deleteOne"])
    /\ UNCHANGED <<users, lessons, nextId, reports, nreq>>

\* DELETE /lessons/:id: lessons.deleteOne({_id}).
DeleteLesson_deleteOne ==
    /\ \E q \in InFlight :
        /\ q.op = "deleteLesson" /\ q.pc = "deleteOne"
        /\ lessons' = deleteOneLesson(lessons, q.id)
        /\ Done(q, Finish(q, "200",
                          IF matchCount(lessons, q.id) = 1
                          THEN "deletedCount 1" ELSE "deletedCount 0"))
    /\ UNCHANGED <<users, nextId, reports, nreq>>

\* POST /lessons/:id/like: updateOne({_id}, {$addToSet: {likes: req.user.email}}).
Like ==
    /\ \E q \in InFlight, id \in Ids :
        /\ q.op = "like" /\ q.pc = "updateOne"
        /\ lessons' = IF id \in DOMAIN lessons
                      THEN [lessons EXCEPT ![id].likes = addToSet(@, likeValue(q))]
                      ELSE lessons
        /\ Done(q, Finish([q EXCEPT !.id = id], "200", "Liked"))
    /\ UNCHANGED <<users, nextId, reports, nreq>>

\* POST /lessons/:id/favorite: updateOne({_id}, {$addToSet: {favorites: req.user.email}}).
Favorite ==
    /\ \E q \in InFlight, id \in Ids :
        /\ q.op = "favorite" /\ q.pc = "updateOne"
        /\ lessons' = IF id \in DOMAIN lessons
                      THEN [lessons EXCEPT ![id].favorites = addToSet(@, likeValue(q))]
                      ELSE lessons
        /\ Done(q, Finish([q EXCEPT !.id = id], "200", "Favorited"))
    /\ UNCHANGED <<users, nextId, reports, nreq>>

\* POST /report: reports.insertOne(data).
Report ==
    /\ \E q \in InFlight, body \in EmailBodies :
        /\ q.op = "report" /\ q.pc = "insertOne"
        /\ reports' = Append(reports, newReportDoc(body, q.email))
        /\ Done(q, Finish([q EXCEPT !.body = body], "200", "Report submitted"))
    /\ UNCHANGED <<users, lessons, nextId, nreq>>

\* POST /create-checkout-session: the call to the payment provider; no
\* collection is read or written.
Checkout ==
    /\ \E q \in InFlight :
        /\ q.op = "checkout" /\ q.pc = "stripe"
        /\ Done(q, [q EXCEPT !.pc = "done", !.status = "200", !.out = "url"])
    /\ UNCHANGED <<users, lessons, nextId, reports, nreq>>

\* POST /payment-success: users.updateOne({email: req.user.email}, {$set: {isPremium: true}}).
PaymentSuccess ==
    /\ \E q \in InFlight, body \in EmailBodies :
        /\ q.op = "paymentSuccess" /\ q.pc = "updateOne"
        /\ LET r == [q EXCEPT !.body = body]
           IN  /\ users' = setPremium(users, paymentTarget(r))
               /\ Done(q, Finish(r, "200", "success"))
    /\ UNCHANGED <<lessons, nextId, reports, nreq>>

Next ==
    \/ Receive
    \/ VerifyToken
    \/ IsAdmin
    \/ Register_findOne
    \/ Register_insertOne
    \/ GetUser
    \/ AdminUsers
    \/ AdminLessons
    \/ AdminReports
    \/ AdminStats_users
    \/ AdminStats_lessons
    \/ AdminStats_reports
    \/ ListLessons
    \/ GetLesson_findLesson
    \/ GetLesson_findUser
    \/ CreateLesson_findUser
    \/ CreateLesson_insertOne
    \/ UpdateLesson_findLesson
    \/ UpdateLesson_findUser
    \/ UpdateLesson_updateOne
    \/ DeleteLesson_findLesson
    \/ DeleteLesson_findUser
    \/ DeleteLesson_deleteOne
    \/ Like
    \/ Favorite
    \/ Report
    \/ Checkout
    \/ PaymentSuccess

Spec == Init /\ [][Next]_vars

\* The like and favorite routes alone: the requests claim C5 is about.
Receive_likes ==
    /\ nreq < MaxRequests
    /\ \E op \in {"like", "favorite"} :
          reqs' = reqs (+) SetToBag({NewRequest(op)})
    /\ nreq' = nreq + 1
    /\ UNCHANGED <<users, lessons, nextId, reports, last>>

NextLikes ==
    \/ Receive_likes
    \/ VerifyToken
    \/ Like
    \/ Favorite

SpecLikes == Init /\ [][NextLikes]_vars

------------------------------------------------------------------------------
\* Vocabulary of the properties.

\* Number of requests answered so far; a step answers a request exactly when
\* this grows, and last' is then that request with its response.
Answered == nreq - BagCardinality(reqs)

Responds == Answered' = Answered + 1

\* Number of times e occurs in the array arr.
Count(arr, e) == Cardinality({i \in 1..Len(arr) : arr[i] = e})

HasAccount(e) == \E i \in 1..Len(users) : users[i].email = e

HasPremiumAccount(e) == \E i \in 1..Len(users) : users[i].email = e /\ users[i].isPremium

HasAdminAccount(e) == \E i \in 1..Len(users) : users[i].email = e /\ users[i].role = "admin"

------------------------------------------------------------------------------
\* C1: in every reachable state the accounts collection holds at most one
\* account per email, however the findOne and insertOne round trips of
\* register requests interleave.
C1_OneAccountPerEmail ==
    \A i, j \in 1..Len(users) : users[i].email = users[j].email => i = j

\* C2: GET /lessons/:id returns a premium lesson only to an authenticated
\* caller who has a premium account or is the lesson's creator; every other
\* caller of a premium lesson, one without an account included, is answered
\* 403 and not the lesson.
C2_PremiumGate ==
    (last.op = "getLesson" /\ last.pc = "done" /\ last.lesson # <<>>
        /\ last.lesson[1].accessLevel = "premium")
    => /\ last.status = "200" =>
            /\ last.token \in Emails
            /\ HasPremiumAccount(last.token) \/ last.token = last.lesson[1].creatorEmail
       /\ (~(last.user # <<>> /\ last.user[1].isPremium)
             /\ last.token # last.lesson[1].creatorEmail)
          => last.status = "403" /\ last.out # "lesson"

\* A premium lesson has been returned to a caller who is not its creator and
\* has a premium account.
C2_Witness ==
    /\ last.op = "getLesson" /\ last.status = "200" /\ last.out = "lesson"
    /\ last.lesson[1].accessLevel = "premium"
    /\ last.token # last.lesson[1].creatorEmail
    /\ HasPremiumAccount(last.token)

\* C3: PUT and DELETE /lessons/:id answer 403 to every authenticated caller
\* who is neither the lesson's creator nor an admin, whether or not the caller
\* has an account.
C3_OwnershipDenied ==
    (last.op \in {"updateLesson", "deleteLesson"} /\ last.pc = "done"
        /\ last.token \in Emails /\ last.lesson # <<>>
        /\ last.token # last.lesson[1].creatorEmail
        /\ ~HasAdminAccount(last.token))
    => last.status = "403"

\* C4: POST /lessons with a premium payload by an authenticated caller whose
\* account is not a premium one is answered 403 and inserts nothing; by a
\* caller with a premium account, or with a payload that is not premium, it
\* inserts exactly one lesson, whose creatorEmail is the caller's email and
\* whose likes and favorites are empty whatever the payload carried.
C4_CreateLesson ==
    [][(Responds /\ last'.op = "createLesson" /\ last'.token \in Emails)
       => /\ (last'.body.accessLevel = "premium"
                /\ ~(last'.user # <<>> /\ last'.user[1].isPremium))
             => last'.status = "403"
          /\ (last'.body.accessLevel # "premium"
                \/ (last'.user # <<>> /\ last'.user[1].isPremium))
             => last'.status = "200"
          /\ IF last'.status = "200"
             THEN /\ nextId' = nextId + 1
                  /\ DOMAIN lessons' = DOMAIN lessons \cup {nextId}
                  /\ \A i \in DOMAIN lessons : lessons'[i] = lessons[i]
                  /\ lessons'[nextId] =
                        [accessLevel |-> last'.body.accessLevel,
                         creatorEmail |-> last'.token,
                         likes |-> <<>>, favorites |-> <<>>]
             ELSE lessons' = lessons /\ nextId' = nextId]_vars

\* C5: once a like (favorite) request of caller e on an existing lesson has
\* been answered, the lesson's likes (favorites) holds e exactly once, and
\* keeps holding it exactly once under any further like and favorite requests
\* of any callers; a request of a caller the array already holds leaves the
\* lesson unchanged, and a like never changes favorites nor a favorite likes.
C5_LikeOnce ==
    [][/\ \A id \in DOMAIN lessons, e \in Emails :
            /\ id \in DOMAIN lessons'
            /\ Count(lessons[id].likes, e) = 1 => Count(lessons'[id].likes, e) = 1
            /\ Count(lessons[id].favorites, e) = 1 => Count(lessons'[id].favorites, e) = 1
       /\ (Responds /\ last'.op = "like" /\ last'.status = "200"
             /\ last'.id \in DOMAIN lessons)
          => /\ Count(lessons'[last'.id].likes, last'.token) = 1
             /\ Count(lessons[last'.id].likes, last'.token) >= 1 => lessons' = lessons
             /\ lessons'[last'.id].favorites = lessons[last'.id].favorites
             /\ \A i \in DOMAIN lessons \ {last'.id} : lessons'[i] = lessons[i]
       /\ (Responds /\ last'.op = "favorite" /\ last'.status = "200"
             /\ last'.id \in DOMAIN lessons)
          => /\ Count(lessons'[last'.id].favorites, last'.token) = 1
             /\ Count(lessons[last'.id].favorites, last'.token) >= 1 => lessons' = lessons
             /\ lessons'[last'.id].likes = lessons[last'.id].likes
             /\ \A i \in DOMAIN lessons \ {last'.id} : lessons'[i] = lessons[i]]_vars

\* A like of a caller on a lesson has been answered, a second like of the
\* same caller is about to write, and the lesson's likes holds the caller once.
C5_Witness ==
    /\ last.op = "like" /\ last.status = "200" /\ last.id \in DOMAIN lessons
    /\ Count(lessons[last.id].likes, last.token) = 1
    /\ \E q \in InFlight :
         q.op = "like" /\ q.pc = "updateOne" /\ q.token = last.token

\* C6: isPremium of an account turns from false to true only in the step that
\* answers a POST /payment-success of a caller with that account's email; that
\* step sets isPremium on the caller's account whatever the body names, leaves
\* every other account, every lesson and every report unchanged, and creates
\* no account.
C6_ConfirmPayment ==
    [][/\ Len(users') >= Len(users)
       /\ \A i \in 1..Len(users) :
            (~users[i].isPremium /\ users'[i].isPremium)
            => (Responds /\ last'.op = "paymentSuccess" /\ last'.token = users[i].email)
       /\ (Responds /\ last'.op = "paymentSuccess" /\ last'.status = "200")
          => /\ lessons' = lessons /\ reports' = reports /\ nextId' = nextId
             /\ Len(users') = Len(users)
             /\ \A i \in 1..Len(users) :
                  /\ users'[i].email = users[i].email
                  /\ users'[i].role = users[i].role
                  /\ users[i].email # last'.token => users'[i] = users[i]
             /\ HasAccount(last'.token)
                => findOneUser(users', last'.token)[1].isPremium]_vars

\* A caller whose account was not premium has confirmed a payment with a body
\* that names another email, and the caller's account is premium now.
C6_Witness ==
    /\ last.op = "paymentSuccess" /\ last.status = "200"
    /\ last.body.email # last.token
    /\ \E i \in 1..Len(users) :
         users[i].email = last.token /\ users[i].role = "user" /\ users[i].isPremium

\* C7: no step gives an account the role admin: the account register stores
\* has role user and isPremium false whatever the payload carried, no step
\* changes the role of a stored account, and so the admin accounts are those
\* of the initial store.
C7_NoNewAdmin ==
    [][/\ Len(users') >= Len(users)
       /\ \A i \in 1..Len(users) : users'[i].role = users[i].role
       /\ \A i \in (Len(users) + 1)..Len(users') :
            users'[i].role = "user" /\ ~users'[i].isPremium
       /\ {i \in 1..Len(users') : users'[i].role = "admin"}
            = {i \in 1..Len(users) : users[i].role = "admin"}]_vars

\* A register whose payload asked for role admin and isPremium true has
\* created an account.
C7_Witness ==
    /\ last.op = "register" /\ last.out = "User created"
    /\ last.body.role = "admin" /\ last.body.isPremium
    /\ \E i \in 1..Len(users) : users[i].email = last.body.email /\ users[i].role = "user"

\* C8: the creatorEmail of a lesson never changes while the lesson exists.
C8_CreatorImmutable ==
    [][\A id \in DOMAIN lessons \cap DOMAIN lessons' :
          lessons'[id].creatorEmail = lessons[id].creatorEmail]_vars

\* C9: a request to a protected route whose credential is missing or rejected
\* is answered 401 without any store round trip, and no request goes past
\* verifyToken unresolved; an admin-only route reaches its handler, and returns
\* data, only for a resolved email whose account has role admin, and answers
\* every other resolved caller 403.
C9_GateOrder ==
    /\ \A q \in InFlight :
         /\ (q.op \in ProtectedOps /\ q.pc # "verifyToken") => q.token \in Emails
         /\ (q.op \in ProtectedOps /\ q.pc = "verifyToken") => q.ops = 0
         /\ (q.op \in AdminOps /\ q.pc \notin {"verifyToken", "isAdmin"})
            => HasAdminAccount(q.token)
    /\ (last.pc = "done" /\ last.op \in ProtectedOps /\ last.token \notin Emails)
       => last.status = "401" /\ last.ops = 0
    /\ (last.pc = "done" /\ last.op \in AdminOps /\ last.token \in Emails)
       => IF HasAdminAccount(last.token)
          THEN last.status = "200" /\ last.ops >= 2
          ELSE last.status = "403" /\ last.ops = 1

\* An admin-only route has answered 403 to a caller whose credential resolved
\* to an email that has an account without the admin role.
C9_Witness ==
    /\ last.op \in AdminOps /\ last.status = "403"
    /\ last.token \in Emails /\ HasAccount(last.token) /\ ~HasAdminAccount(last.token)

\* C10: a lesson deleted while an update or a delete of it was between its
\* findOne and its write stays deleted: the write matches nothing, answers
\* with the driver's result and changes no lesson; no step brings a deleted
\* _id back; and a getLesson, updateLesson or deleteLesson whose findOne comes
\* after the delete is answered 404.
C10_DeletedStaysDeleted ==
    [][/\ \A id \in 1..(nextId - 1) : id \notin DOMAIN lessons => id \notin DOMAIN lessons'
       /\ (Responds /\ last'.op \in {"updateLesson", "deleteLesson"}
             /\ last'.ops = 3 /\ last'.id \notin DOMAIN lessons)
          => /\ last'.status = "200"
             /\ last'.out \in {"matchedCount 0", "deletedCount 0"}
             /\ lessons' = lessons
       /\ (Responds /\ last'.op \in {"getLesson", "updateLesson", "deleteLesson"}
             /\ last'.ops = 1 /\ last'.id \notin DOMAIN lessons)
          => last'.status = "404" /\ lessons' = lessons]_vars

\* An updateLesson that had read its lesson has written after another
\* request deleted the lesson.
C10_Witness ==
    /\ last.op = "updateLesson" /\ last.status = "200" /\ last.out = "matchedCount 0"
    /\ last.lesson # <<>> /\ last.id \notin DOMAIN lessons

====
